---- MODULE Spec2Model ----
(***************************************************************************)
(* A model of the prediction/sampling engine, the coder combinators and    *)
(* the Gaussian likelihood parameterisers of neuralprocesses.              *)
(*                                                                         *)
(*   Spec       predict (model/predict.py) driving the retrying sampler    *)
(*   SpecRetry  the retrying sampler _retry called on its own              *)
(*   SpecCoder  code() on the coder combinators (coder.py)                 *)
(*   SpecLik    code() on the Gaussian likelihoods (likelihood.py)         *)
(*   SpecThreads  two threads in _retry, sharing B.epsilon                 *)
(*   SpecFailing  _retry on a function that raises at every call, with     *)
(*                the fairness of a running interpreter                    *)
(*                                                                         *)
(* Numbers.  B.epsilon is counted in units of 1e-8, so the ceiling 1e-3 of *)
(* _retry is 100000 and `B.epsilon *= 10` is an exact product; the IEEE    *)
(* rounding of that product (at most one unit in the last place) is not    *)
(* modelled.  The noise of a likelihood and its epsilon are counted in     *)
(* units of 1e-6, and the rounding of a sum to the tensor's data type is   *)
(* not modelled either.                                                    *)
(***************************************************************************)
EXTENDS Integers, Sequences, FiniteSets, TLC

\* ------------------------------------------------------------------------
\* Bounds of the model
\* ------------------------------------------------------------------------

\* Attempts one _retry invocation may make in the model.  Every invocation
\* that starts from a positive B.epsilon ends within 6 attempts; the bound
\* only cuts the endless loops that start from B.epsilon <= 0.
MaxAttempts == 7

\* The largest num_samples and batch_size predict is called with.
MaxSamples == 4
MaxBatch == 3

\* The combinators wrapped around a coder, and the points of a context set.
MaxWrap == 2
MaxPoints == 2

\* The output channels and the rank of the low-rank factor of a likelihood.
MaxDimY == 2
MaxRank == 2

\* ------------------------------------------------------------------------
\* Program constants
\* ------------------------------------------------------------------------

\* predict.py:20  `if B.epsilon > 1e-3`, in units of 1e-8.
Ceiling == 100000

\* predict.py:19  `B.epsilon *= 10`.
Factor == 10

\* A float below the least finite float is -inf, and -inf * 10 is -inf; the
\* model lets every B.epsilon below -1e-1 (units of 1e-8) stand for -inf.
MinusInfinity == -10000000

\* Values of B.epsilon an invocation of _retry may start from (units of
\* 1e-8): 1e-8, 1e-7, 3e-6, 1e-5, 1e-4, 5e-4, 1e-3, and, outside the range
\* the sampler is meant for, 0 and 2e-3.
EpsilonValues == {1, 10, 300, 1000, 10000, 50000, 100000, 0, 200000}

\* The sampling functions predict hands to _retry: a bound method of a
\* distribution, which is modelled by the size of its sample axis
\* (B.shape_batch(pred, 0)).
SampleMethods == {"noiseless.sample", "sample"}
SampleFunction(method, shape) == [method |-> method, shape |-> shape]

\* What one call f(*args) does: it returns, or raises an Exception: a
\* numerical one (a failed Cholesky factorisation) or any other (a shape
\* mismatch).  An exception outside Exception (KeyboardInterrupt,
\* SystemExit) ends the program and is not modelled.
Outcomes == {"ok", "numerical", "other"}

NoError == [kind |-> "none", attempt |-> 0]
NoResult == [state |-> -1, sample |-> <<>>]
NoFunction == [method |-> "none", shape |-> 0]

\* Values of B.epsilon predict is called under: 1e-5 (three attempts
\* before the ceiling) and 1e-3 (one).
PredictEpsilons == {1000, 100000}

\* The models predict is given: one whose encoding is a Dirac, so that the
\* prediction has a sample axis of size 1 whatever num_samples asks for,
\* and one with a latent variable, whose prediction has one entry along
\* the sample axis per requested sample.
ModelKinds == {"dirac", "latent"}

\* Entries of pred.mean and pred.var, one per entry of the sample axis
\* (the axes after it are collapsed to one number).
MeanValues == {-1, 2}
VarValues == {0, 1}

NoPred == [shape |-> 0, mean |-> <<>>, var |-> <<>>]
NoReturn == [state |-> -1, mean |-> [num |-> 0, den |-> 1],
             var |-> [num |-> 0, den |-> 1], ft |-> <<>>, yt |-> <<>>]

VARIABLES
    epsilon,          \* B.epsilon, the process-wide regularisation
    eps0,             \* its value before the first call (history)
    rpc,              \* _retry: "idle", "call", "try", "returned", "raised"
    rf,               \* _retry: the argument f
    rargs,            \* _retry: the arguments *args
    epsilon_before,   \* _retry: the local epsilon_before
    res,              \* _retry: the result returned, NoResult if none
    raised,           \* _retry: the exception that left _retry, NoError if none
    calls,            \* history: the calls f(*args) of this invocation
    ferr,             \* history: the exception f raised last
    epsAtCall,        \* history: B.epsilon when this invocation started
    ppc,              \* predict: "idle", "loop", "noiseless", "noisy",
                      \*   "fast_noiseless", "fast_noisy", "returned", "raised"
    model,            \* predict: the argument model (its kind)
    num_samples,      \* predict: the argument num_samples
    batch_size,       \* predict: the argument batch_size
    state,            \* predict: the random state (draws made from it)
    done_num_samples, \* predict: the local done_num_samples
    this_num_samples, \* predict: the local this_num_samples
    pred,             \* predict: the local pred
    ft, yt,           \* predict: the locals ft and yt
    m1s, m2s,         \* predict: the locals m1s and m2s
    ret,              \* predict: the tuple returned, NoReturn if none
    perr,             \* predict: the exception that left predict
    evals,            \* history: the model evaluations of this call
    iters,            \* history: loop bodies entered in this call
    draws,            \* history: the calls of _retry made by this call
    fastAt,           \* history: the iteration that took the fast path, or 0
    cpc,              \* code: "none", "ready", "called", "compared", "permuted"
    coder,            \* code: the argument coder
    xz, z, x,         \* code: the arguments xz, z and x
    kw_args,          \* code: the keyword arguments
    out,              \* code: what the call returned and the calls it made
    out_noiseless,    \* code: the same for the call repeated with noiseless=True
    perm,             \* code: an order of the observations of the context
    out_permuted,     \* code: the same for the call repeated in that order
    t_pc,             \* threads: where each thread is in its call of _retry
    t_epsilon_before, \* threads: each thread's local epsilon_before
    t_loaded,         \* threads: the B.epsilon each thread read for `*= 10`
    t_calls,          \* history: B.epsilon at each thread's calls f(*args)
    overlapped        \* history: a thread entered _retry while another was in it

retryVars == <<epsilon, eps0, rpc, rf, rargs, epsilon_before, res, raised,
               calls, ferr, epsAtCall>>

predictVars == <<ppc, model, num_samples, batch_size, state, done_num_samples,
                 this_num_samples, pred, ft, yt, m1s, m2s, ret, perr, evals,
                 iters, draws, fastAt>>

codeVars == <<cpc, coder, xz, z, x, kw_args, out, out_noiseless, perm,
              out_permuted>>

threadVars == <<t_pc, t_epsilon_before, t_loaded, t_calls, overlapped>>

vars == <<retryVars, predictVars, codeVars, threadVars>>

\* No call of code() is under way.
NoCoder == [type |-> "none"]
NoTensor == [shape |-> <<0>>, data |-> <<>>, dtype |-> "none"]
NoKwArgs == [name \in {} |-> 0]
NoOutput == [xz |-> NoTensor, z |-> NoTensor, log |-> <<>>]

CodeIdle ==
    /\ cpc = "none"
    /\ coder = NoCoder
    /\ xz = NoTensor
    /\ z = NoTensor
    /\ x = NoTensor
    /\ kw_args = NoKwArgs
    /\ out = NoOutput
    /\ out_noiseless = NoOutput
    /\ perm = <<>>
    /\ out_permuted = NoOutput

\* The threads that call _retry at the same time, none of them started.
Threads == {1, 2}

ThreadsIdle ==
    /\ t_pc = [t \in Threads |-> "idle"]
    /\ t_epsilon_before = [t \in Threads |-> 0]
    /\ t_loaded = [t \in Threads |-> 0]
    /\ t_calls = [t \in Threads |-> <<>>]
    /\ overlapped = FALSE

\* ------------------------------------------------------------------------
\* _retry (model/predict.py:10-25)
\* ------------------------------------------------------------------------

\* The caller's call _retry(f, *args).
CallRetry(f, args) ==
    /\ rpc' = "call"
    /\ rf' = f
    /\ rargs' = args
    /\ res' = NoResult
    /\ raised' = NoError
    /\ calls' = <<>>
    /\ ferr' = NoError
    /\ epsAtCall' = epsilon
    /\ UNCHANGED <<epsilon, eps0, epsilon_before, codeVars, threadVars>>

\* predict.py:12  epsilon_before = B.epsilon
RetryEnter ==
    /\ rpc = "call"
    /\ epsilon_before' = epsilon
    /\ rpc' = "try"
    /\ UNCHANGED <<epsilon, eps0, rf, rargs, res, raised, calls, ferr, epsAtCall>>
    /\ UNCHANGED <<predictVars, codeVars, threadVars>>

\* predict.py:19  the float product B.epsilon * 10.
Times(eps, factor) ==
    IF eps * factor < MinusInfinity THEN MinusInfinity ELSE eps * factor

\* The value f(*args) returns, for f = dist.sample or dist.noiseless.sample
\* and args = (state) or (state, num): the advanced random state and a
\* sample tensor, modelled by its leading axes: (shape) for one draw and
\* (num, shape) for num draws.
ResultOf(f, args) ==
    [state  |-> args[1] + 1,
     sample |-> IF Len(args) = 1 THEN <<f.shape>> ELSE <<args[2], f.shape>>]

\* The except clause with the reset before the raise forgotten.
ExceptClauseNoReset(eps, before, e) ==
    LET escalated == eps * Factor
    IN  IF escalated > Ceiling
        THEN [epsilon |-> escalated, rpc |-> "raised", raised |-> e]
        ELSE [epsilon |-> escalated, rpc |-> "try", raised |-> NoError]

\* The except clause giving up as soon as the ceiling is reached.
ExceptClauseAtCeiling(eps, before, e) ==
    LET escalated == eps * Factor
    IN  IF escalated >= Ceiling
        THEN [epsilon |-> before, rpc |-> "raised", raised |-> e]
        ELSE [epsilon |-> escalated, rpc |-> "try", raised |-> NoError]

\* The except clause raising an error of its own in place of e.
ExceptClauseWrapped(eps, before, e) ==
    LET escalated == eps * Factor
    IN  IF escalated > Ceiling
        THEN [epsilon |-> before, rpc |-> "raised",
              raised |-> [kind |-> "RetriesExhausted", attempt |-> e.attempt]]
        ELSE [epsilon |-> escalated, rpc |-> "try", raised |-> NoError]

\* predict.py:17-23  the except clause: what a caught exception e does to
\* B.epsilon, and whether e leaves _retry.
ExceptClause(eps, before, e) ==
    LET escalated == Times(eps, Factor)
    IN  IF escalated > Ceiling
        THEN [epsilon |-> before, rpc |-> "raised", raised |-> e]
        ELSE [epsilon |-> escalated, rpc |-> "try", raised |-> NoError]

\* predict.py:24-25  after the loop: reset B.epsilon and return res.
AfterLoop(before, r) ==
    [epsilon |-> before, rpc |-> "returned", res |-> r]

\* No invocation of _retry is under way.
RetryIdle ==
    /\ eps0 = epsilon
    /\ rpc = "idle"
    /\ rf = NoFunction
    /\ rargs = <<>>
    /\ epsilon_before = 0
    /\ res = NoResult
    /\ raised = NoError
    /\ calls = <<>>
    /\ ferr = NoError
    /\ epsAtCall = epsilon

\* predict.py:13-16, 24-25  one pass of the loop in which f(*args) returns.
RetryTryOk ==
    /\ rpc = "try"
    /\ Len(calls) < MaxAttempts
    /\ calls' = Append(calls, [f |-> rf, args |-> rargs, epsilon |-> epsilon])
    /\ LET step == AfterLoop(epsilon_before, ResultOf(rf, rargs))
       IN  /\ epsilon' = step.epsilon
           /\ rpc' = step.rpc
           /\ res' = step.res
    /\ UNCHANGED <<eps0, rf, rargs, epsilon_before, raised, ferr, epsAtCall>>
    /\ UNCHANGED <<predictVars, codeVars, threadVars>>

\* predict.py:13-15, 17-23  one pass of the loop in which f(*args) raises.
RetryTryFail ==
    /\ rpc = "try"
    /\ Len(calls) < MaxAttempts
    /\ \E kind \in Outcomes \ {"ok"} :
         LET e == [kind |-> kind, attempt |-> Len(calls)]
             step == ExceptClause(epsilon, epsilon_before, e)
         IN  /\ calls' = Append(calls, [f |-> rf, args |-> rargs, epsilon |-> epsilon])
             /\ ferr' = e
             /\ epsilon' = step.epsilon
             /\ rpc' = step.rpc
             /\ raised' = step.raised
    /\ UNCHANGED <<eps0, rf, rargs, epsilon_before, res, epsAtCall>>
    /\ UNCHANGED <<predictVars, codeVars, threadVars>>

\* ------------------------------------------------------------------------
\* Tensors of predict
\* ------------------------------------------------------------------------

RECURSIVE SeqSum(_)
SeqSum(s) == IF s = <<>> THEN 0 ELSE Head(s) + SeqSum(Tail(s))

Min(a, b) == IF a < b THEN a ELSE b

\* B.concat(*ts, axis=0) of tensors given by their entries along axis 0.
RECURSIVE Concat(_)
Concat(ts) == IF ts = <<>> THEN <<>> ELSE Head(ts) \o Concat(Tail(ts))

\* A concatenation that keeps only the last tensor.
ConcatShapesLast(ts) == ts[Len(ts)]

\* B.concat(*ts, axis=0) of tensors given by their leading axes: the sizes
\* of axis 0 add up.
RECURSIVE ConcatShapes(_)
ConcatShapes(ts) ==
    IF Len(ts) = 1 THEN Head(ts)
    ELSE LET rest == ConcatShapes(Tail(ts))
         IN  <<Head(ts)[1] + rest[1]>> \o Tail(rest)

\* B.squeeze(t, axis=axis) of a tensor given by its leading axes; predict
\* squeezes only axes of size 1.
Squeeze(t, axis) ==
    IF t[axis + 1] = 1
    THEN [i \in 1..(Len(t) - 1) |-> IF i <= axis THEN t[i] ELSE t[i + 1]]
    ELSE t

\* Fractions, for B.mean: num / den with den > 0.
Frac(n, d) == [num |-> n, den |-> d]
FracMul(a, b) == Frac(a.num * b.num, a.den * b.den)
FracSub(a, b) == Frac(a.num * b.den - b.num * a.den, a.den * b.den)
FracEq(a, b) == a.num * b.den = b.num * a.den

\* B.mean(t, axis=0) of a tensor given by its entries along axis 0.
Mean0(t) == Frac(SeqSum(t), Len(t))

\* B.add(a, B.multiply(b, b)), entry by entry.
AddSquare(a, b) == [i \in 1..Len(a) |-> a[i] + b[i] * b[i]]

\* ------------------------------------------------------------------------
\* predict (model/predict.py:28-115)
\* ------------------------------------------------------------------------

\* B.shape_batch(pred, 0) of the prediction a model makes when asked for n
\* samples (predict.py:78-80).
ModelShape(kind, n) == IF kind = "dirac" THEN 1 ELSE n

\* The predictions model(state, contexts, xt, num_samples=n) may return.
Predictions(kind, n) ==
    LET k == ModelShape(kind, n)
    IN  {[shape |-> k, mean |-> m, var |-> v] :
            m \in [1..k -> MeanValues], v \in [1..k -> VarValues]}

\* The batch size without the limit to what remains.
ThisNumSamplesNoMin(num, done, batch) == batch

\* predict.py:66  this_num_samples = min(num_samples - done_num_samples, batch_size)
ThisNumSamples(num, done, batch) == Min(num - done, batch)

\* The test of the fast path without the test of the request.
IsDegenerateAnyRequest(this, p) == p.shape = 1

\* predict.py:81  the test of the fast path.
IsDegenerate(this, p) == this > 1 /\ p.shape = 1

\* predict.py:84-92  the tuple the fast path returns.
FastReturn(s, p, f, y) ==
    [state |-> s,
     mean  |-> Frac(p.mean[1], 1),
     var   |-> Frac(p.var[1], 1),
     ft    |-> Squeeze(f, 1),
     yt    |-> Squeeze(y, 1)]

\* The mean of the batches' means, each batch weighing the same.
RECURSIVE SumOfBatchMeans(_)
SumOfBatchMeans(ms1) ==
    IF ms1 = <<>> THEN Frac(0, 1)
    ELSE LET a == Mean0(Head(ms1))
             b == SumOfBatchMeans(Tail(ms1))
         IN  Frac(a.num * b.den + b.num * a.den, a.den * b.den)

MarginalMeanOfBatchMeans(ms1) ==
    LET t == SumOfBatchMeans(ms1) IN Frac(t.num, t.den * Len(ms1))

\* predict.py:111-113  the marginal statistics.
MarginalMean(ms1) == Mean0(Concat(ms1))
MarginalVar(ms1, ms2) ==
    LET m1 == Mean0(Concat(ms1))
        m2 == Mean0(Concat(ms2))
    IN  FracSub(m2, FracMul(m1, m1))

\* predict.py:106-115  the tuple the batched path returns.
BatchedReturn(s, f, y, ms1, ms2) ==
    [state |-> s,
     mean  |-> MarginalMean(ms1),
     var   |-> MarginalVar(ms1, ms2),
     ft    |-> ConcatShapes(f),
     yt    |-> ConcatShapes(y)]

PredictIdle ==
    /\ ppc = "idle"
    /\ model = "none"
    /\ num_samples = 0
    /\ batch_size = 0
    /\ state = 0
    /\ done_num_samples = 0
    /\ this_num_samples = 0
    /\ pred = NoPred
    /\ ft = <<>>
    /\ yt = <<>>
    /\ m1s = <<>>
    /\ m2s = <<>>
    /\ ret = NoReturn
    /\ perr = NoError
    /\ evals = <<>>
    /\ iters = 0
    /\ draws = <<>>
    /\ fastAt = 0

\* _retry(f, *args) called by predict.
PredictCallsRetry(f, args) ==
    /\ CallRetry(f, args)
    /\ draws' = Append(draws, [method |-> f.method, args |-> args])

\* predict.py:56-63  predict(state, model, contexts, xt, num_samples=n,
\* batch_size=b) is called.
PredictCall ==
    /\ ppc \in {"idle", "returned", "raised"}
    /\ \E kind \in ModelKinds, n \in 1..MaxSamples, b \in 1..MaxBatch :
         /\ model' = kind
         /\ num_samples' = n
         /\ batch_size' = b
    /\ ppc' = "loop"
    /\ state' = 0
    /\ done_num_samples' = 0
    /\ this_num_samples' = 0
    /\ pred' = NoPred
    /\ ft' = <<>>
    /\ yt' = <<>>
    /\ m1s' = <<>>
    /\ m2s' = <<>>
    /\ ret' = NoReturn
    /\ perr' = NoError
    /\ evals' = <<>>
    /\ iters' = 0
    /\ draws' = <<>>
    /\ fastAt' = 0
    /\ UNCHANGED <<retryVars, codeVars, threadVars>>

\* predict.py:64-82, 95  the loop test holds: the model is evaluated, and
\* the first sampling call of the fast path or of the batch is made.
PredictLoopBody ==
    /\ ppc = "loop"
    /\ done_num_samples < num_samples
    /\ LET this == ThisNumSamples(num_samples, done_num_samples, batch_size)
       IN  /\ this_num_samples' = this
           /\ iters' = iters + 1
           /\ \E p \in Predictions(model, this) :
                /\ pred' = p
                /\ state' = state + 1
                /\ evals' = Append(evals, [num_samples |-> this, pred |-> p])
                /\ IF IsDegenerate(this, p)
                   THEN /\ ppc' = "fast_noiseless"
                        /\ fastAt' = iters + 1
                        /\ PredictCallsRetry(SampleFunction("noiseless.sample", p.shape),
                                             <<state + 1, num_samples>>)
                   ELSE /\ ppc' = "noiseless"
                        /\ fastAt' = fastAt
                        /\ PredictCallsRetry(SampleFunction("noiseless.sample", p.shape),
                                             <<state + 1>>)
    /\ UNCHANGED <<model, num_samples, batch_size, done_num_samples, ft, yt,
                   m1s, m2s, ret, perr>>

\* predict.py:82-83  the fast path: the noiseless samples are in, the noisy
\* ones are drawn.
PredictFastNoiseless ==
    /\ ppc = "fast_noiseless"
    /\ rpc = "returned"
    /\ state' = res.state
    /\ ft' = res.sample
    /\ ppc' = "fast_noisy"
    /\ PredictCallsRetry(SampleFunction("sample", pred.shape),
                         <<res.state, num_samples>>)
    /\ UNCHANGED <<model, num_samples, batch_size, done_num_samples,
                   this_num_samples, pred, yt, m1s, m2s, ret, perr, evals,
                   iters, fastAt>>

\* predict.py:83-92  the fast path: the noisy samples are in, predict
\* returns.
PredictFastReturn ==
    /\ ppc = "fast_noisy"
    /\ rpc = "returned"
    /\ state' = res.state
    /\ yt' = res.sample
    /\ ret' = FastReturn(res.state, pred, ft, res.sample)
    /\ ppc' = "returned"
    /\ rpc' = "idle"
    /\ UNCHANGED <<epsilon, eps0, rf, rargs, epsilon_before, res, raised,
                   calls, ferr, epsAtCall, codeVars, threadVars>>
    /\ UNCHANGED <<model, num_samples, batch_size, done_num_samples,
                   this_num_samples, pred, ft, m1s, m2s, perr, evals, iters,
                   draws, fastAt>>

\* predict.py:95-97  the batch's noiseless sample is in, its noisy one is
\* drawn.
PredictNoiseless ==
    /\ ppc = "noiseless"
    /\ rpc = "returned"
    /\ state' = res.state
    /\ ft' = Append(ft, res.sample)
    /\ ppc' = "noisy"
    /\ PredictCallsRetry(SampleFunction("sample", pred.shape), <<res.state>>)
    /\ UNCHANGED <<model, num_samples, batch_size, done_num_samples,
                   this_num_samples, pred, yt, m1s, m2s, ret, perr, evals,
                   iters, fastAt>>

\* predict.py:97-104  the batch's noisy sample is in: the moments are
\* recorded and the batch is counted.
PredictNoisy ==
    /\ ppc = "noisy"
    /\ rpc = "returned"
    /\ state' = res.state
    /\ yt' = Append(yt, res.sample)
    /\ m1s' = Append(m1s, pred.mean)
    /\ m2s' = Append(m2s, AddSquare(pred.var, pred.mean))
    /\ done_num_samples' = done_num_samples + this_num_samples
    /\ ppc' = "loop"
    /\ rpc' = "idle"
    /\ UNCHANGED <<epsilon, eps0, rf, rargs, epsilon_before, res, raised,
                   calls, ferr, epsAtCall, codeVars, threadVars>>
    /\ UNCHANGED <<model, num_samples, batch_size, this_num_samples, pred,
                   ft, ret, perr, evals, iters, draws, fastAt>>

\* predict.py:64, 106-115  the loop test fails: predict returns.
PredictReturn ==
    /\ ppc = "loop"
    /\ ~(done_num_samples < num_samples)
    /\ ret' = BatchedReturn(state, ft, yt, m1s, m2s)
    /\ ppc' = "returned"
    /\ UNCHANGED <<retryVars, codeVars, threadVars>>
    /\ UNCHANGED <<model, num_samples, batch_size, state, done_num_samples,
                   this_num_samples, pred, ft, yt, m1s, m2s, perr, evals,
                   iters, draws, fastAt>>

\* An exception that leaves _retry leaves predict, which catches nothing.
PredictRaises ==
    /\ ppc \in {"noiseless", "noisy", "fast_noiseless", "fast_noisy"}
    /\ rpc = "raised"
    /\ perr' = raised
    /\ ppc' = "raised"
    /\ rpc' = "idle"
    /\ UNCHANGED <<epsilon, eps0, rf, rargs, epsilon_before, res, raised,
                   calls, ferr, epsAtCall, codeVars, threadVars>>
    /\ UNCHANGED <<model, num_samples, batch_size, state, done_num_samples,
                   this_num_samples, pred, ft, yt, m1s, m2s, ret, evals,
                   iters, draws, fastAt>>

Init ==
    /\ epsilon \in PredictEpsilons
    /\ RetryIdle
    /\ PredictIdle
    /\ CodeIdle
    /\ ThreadsIdle

Next ==
    \/ PredictCall
    \/ PredictLoopBody
    \/ PredictFastNoiseless
    \/ PredictFastReturn
    \/ PredictNoiseless
    \/ PredictNoisy
    \/ PredictReturn
    \/ PredictRaises
    \/ RetryEnter
    \/ RetryTryOk
    \/ RetryTryFail

Spec == Init /\ [][Next]_vars

\* ------------------------------------------------------------------------
\* SpecRetry: a caller making one call of _retry after another
\* ------------------------------------------------------------------------

\* The arguments *args: the random state, then the number of samples if
\* one is given.
RetryArgs == {<<0>>, <<0, 2>>, <<1>>}
SampleShapes == {1, 2}

InitRetry ==
    /\ epsilon \in EpsilonValues
    /\ RetryIdle
    /\ PredictIdle
    /\ CodeIdle
    /\ ThreadsIdle

CallerCalls ==
    /\ rpc \in {"idle", "returned", "raised"}
    /\ \E m \in SampleMethods, shape \in SampleShapes, args \in RetryArgs :
         CallRetry(SampleFunction(m, shape), args)
    /\ UNCHANGED predictVars

NextRetry == CallerCalls \/ RetryEnter \/ RetryTryOk \/ RetryTryFail

SpecRetry == InitRetry /\ [][NextRetry]_vars

\* ------------------------------------------------------------------------
\* Tensors of the coders and likelihoods
\* ------------------------------------------------------------------------
\* A tensor is its shape, its entries in row-major order and its data type.
\* B.reshape therefore changes the shape alone.

Tensor(shape, data, dtype) == [shape |-> shape, data |-> data, dtype |-> dtype]

Max(a, b) == IF a > b THEN a ELSE b

RECURSIVE Prod(_)
Prod(shape) == IF shape = <<>> THEN 1 ELSE Head(shape) * Prod(Tail(shape))

\* The number of entries one step along axis k (from 1) skips.
Stride(shape, k) == Prod(SubSeq(shape, k + 1, Len(shape)))

\* The index (from 0, one per axis) of entry j (from 0) of a tensor of this
\* shape, and back.
Unravel(j, shape) == [k \in 1..Len(shape) |-> (j \div Stride(shape, k)) % shape[k]]

RECURSIVE RavelFrom(_, _, _)
RavelFrom(idx, shape, k) ==
    IF k > Len(shape) THEN 0
    ELSE idx[k] * Stride(shape, k) + RavelFrom(idx, shape, k + 1)

Ravel(idx, shape) == RavelFrom(idx, shape, 1)

\* B.rank(z)
Rank(t) == Len(t.shape)

\* lab.util.resolve_axis(z, axis): a negative axis counts from the end.
ResolveAxis(t, axis) == IF axis < 0 THEN Rank(t) + axis ELSE axis

\* B.shape(z, axis)
ShapeAt(t, axis) == t.shape[ResolveAxis(t, axis) + 1]

\* The tensor of the given shape whose entry at index idx is the entry of t
\* at index From(idx).
Gather(t, shape, From(_)) ==
    Tensor(shape,
           [j \in 1..Prod(shape) |-> t.data[Ravel(From(Unravel(j - 1, shape)), t.shape) + 1]],
           t.dtype)

\* Python's slice(lo, hi) on an axis of size n: the first index and the
\* length it selects (slice.indices).
SliceBound(i, n) == IF i < 0 THEN Max(i + n, 0) ELSE Min(i, n)
SliceStart(lo, hi, n) == SliceBound(lo, n)
SliceLength(lo, hi, n) == Max(SliceBound(hi, n) - SliceBound(lo, n), 0)

\* z[..., lo:hi, ...] on the axis (from 0).
SliceAxis(t, axis, lo, hi) ==
    LET n == t.shape[axis + 1]
        start == SliceStart(lo, hi, n)
        shape == [t.shape EXCEPT ![axis + 1] = SliceLength(lo, hi, n)]
        From(idx) == [idx EXCEPT ![axis + 1] = idx[axis + 1] + start]
    IN  Gather(t, shape, From)

\* B.concat(a, b, axis=axis)
ConcatAxis(a, b, axis) ==
    LET n == a.shape[axis + 1]
        shape == [a.shape EXCEPT ![axis + 1] = n + b.shape[axis + 1]]
        At(j) == LET idx == Unravel(j - 1, shape)
                 IN  IF idx[axis + 1] < n
                     THEN a.data[Ravel(idx, a.shape) + 1]
                     ELSE b.data[Ravel([idx EXCEPT ![axis + 1] = idx[axis + 1] - n],
                                       b.shape) + 1]
    IN  Tensor(shape, [j \in 1..Prod(shape) |-> At(j)], a.dtype)

\* B.reshape(z, *shape), where one entry of shape may be -1.
Reshape(t, shape) ==
    LET known == Prod([k \in 1..Len(shape) |-> IF shape[k] = -1 THEN 1 ELSE shape[k]])
    IN  Tensor([k \in 1..Len(shape) |->
                   IF shape[k] = -1 THEN Prod(t.shape) \div known ELSE shape[k]],
               t.data, t.dtype)

\* B.transpose(z): the last two axes change places.
Transpose(t) ==
    LET r == Rank(t)
        Swap(s) == [k \in 1..r |-> IF k = r THEN s[r - 1]
                                   ELSE IF k = r - 1 THEN s[r] ELSE s[k]]
    IN  Gather(t, Swap(t.shape), Swap)

\* B.sum(z, axis=axis, squeeze=False)
RECURSIVE SumUpTo(_, _, _, _)
SumUpTo(t, idx, axis, n) ==
    IF n = 0 THEN 0
    ELSE t.data[Ravel([idx EXCEPT ![axis + 1] = n - 1], t.shape) + 1]
         + SumUpTo(t, idx, axis, n - 1)

SumAxis(t, axis) ==
    LET shape == [t.shape EXCEPT ![axis + 1] = 1]
    IN  Tensor(shape,
               [j \in 1..Prod(shape) |->
                   SumUpTo(t, Unravel(j - 1, shape), axis, t.shape[axis + 1])],
               t.dtype)

\* An operation applied to every entry.
Map(t, Op(_)) == [t EXCEPT !.data = [j \in 1..Len(t.data) |-> Op(t.data[j])]]

\* B.zeros(z): zeros of the shape and data type of z.
Zeros(t) == [t EXCEPT !.data = [j \in 1..Len(t.data) |-> 0]]

\* B.cast(dtype, z).  The entries are numbers both data types hold.
Cast(dtype, t) == [t EXCEPT !.dtype = dtype]

\* ------------------------------------------------------------------------
\* Keyword arguments and helpers of code()
\* ------------------------------------------------------------------------

\* kw with one option set.
KwWith(kw, name, value) ==
    [n \in (DOMAIN kw) \cup {name} |-> IF n = name THEN value ELSE kw[n]]

\* datadims.data_dims(xz): the number of data axes of an encoding, which
\* come after the batch and the channel axis (spec, section 4.2 (a)).
DataDims(t) == Rank(t) - 2

\* likelihood.py:59-73  _select(z, i, axis) = z[..., i:i + 1, ...]
Select(t, i, axis) == SliceAxis(t, ResolveAxis(t, axis), i, i + 1)

\* The distributions code() ends in.
Dirac(t, d) ==
    [kind |-> "Dirac", mean |-> t, noise |-> NoTensor, factor |-> NoTensor,
     shape |-> <<>>, d |-> d]

\* ------------------------------------------------------------------------
\* The coders (coder.py) and the deterministic likelihood (likelihood.py)
\* ------------------------------------------------------------------------

InputsCoder == [type |-> "InputsCoder"]
FunctionalCoder(disc, c) == [type |-> "FunctionalCoder", disc |-> disc, coder |-> c]
DeepSet(phi, rho) == [type |-> "DeepSet", phi |-> phi, rho |-> rho]
MapDiagonal(c, map_encoding) ==
    [type |-> "MapDiagonal", coder |-> c, map_encoding |-> map_encoding]
DeterministicLikelihood == [type |-> "DeterministicLikelihood"]

\* The call code(coder, xz, z, x, **kw), as the callee receives it.
CodeCallOf(c, exz, ez, ex, kw) ==
    [callee |-> c.type, coder |-> c, xz |-> exz, z |-> ez, x |-> ex, kw |-> kw]

\* The call disc(xz, x, **kw), as the discretisation receives it.
DiscCallOf(exz, ex, kw) == [callee |-> "disc", xz |-> exz, x |-> ex, kw |-> kw]

\* The grid a discretisation of the given number of points returns: one
\* channel of locations 0, 1, ...
Disc(disc, exz, ex, kw) ==
    Tensor(<<1, 1, disc>>, [j \in 1..disc |-> j - 1], exz.dtype)

\* The functions phi and rho of a deep set, applied at every point to the
\* channels there: two that act on each channel alone and one that mixes
\* the channels of the point.
Pointwise(name, t) ==
    LET Affine(v) == 2 * v + 1
        Square(v) == v * v
        Mirror(idx) == [idx EXCEPT ![2] = t.shape[2] - 1 - idx[2]]
        Mixed(j) == t.data[j] + 2 * t.data[Ravel(Mirror(Unravel(j - 1, t.shape)), t.shape) + 1]
    IN  CASE name = "affine" -> Map(t, Affine)
          [] name = "square" -> Map(t, Square)
          [] name = "mix" -> [t EXCEPT !.data = [j \in 1..Len(t.data) |-> Mixed(j)]]

\* An aggregation that keeps the first observation.
AggFirst(t) == SliceAxis(t, 2, 0, 1)

\* coder.py:63  the default agg: B.sum(x, axis=2, squeeze=False)
Agg(t) == SumAxis(t, 2)

RECURSIVE Code(_, _, _, _, _)

\* coder.py:15-17
CodeInputsCoder(c, exz, ez, ex, kw) == [xz |-> ex, z |-> ex, log |-> <<>>]

\* coder.py:38-41
CodeFunctionalCoder(c, exz, ez, ex, kw) ==
    LET grid == Disc(c.disc, exz, ex, kw)
        inner == Code(c.coder, exz, ez, grid, kw)
    IN  [inner EXCEPT !.log = <<DiscCallOf(exz, ex, kw)>> \o inner.log]

\* coder.py:70-76
CodeDeepSet(c, exz, ez, ex, kw) ==
    LET z1 == ConcatAxis(exz, ez, 1)
        z2 == Pointwise(c.phi, z1)
        z3 == Agg(z2)
        z4 == Pointwise(c.rho, z3)
    IN  [xz |-> ex, z |-> z4, log |-> <<>>]

\* A MapDiagonal that maps the encoding whatever map_encoding says.
CodeMapDiagonalAlwaysMaps(c, exz, ez, ex, kw) ==
    Code(c.coder, ConcatAxis(exz, exz, 1), ez, <<ex, ex>>, NoKwArgs)

\* coder.py:99-103
CodeMapDiagonal(c, exz, ez, ex, kw) ==
    LET mapped == IF c.map_encoding THEN ConcatAxis(exz, exz, 1) ELSE exz
    IN  Code(c.coder, mapped, ez, <<ex, ex>>, NoKwArgs)

\* likelihood.py:85-104
CodeDeterministicLikelihood(c, exz, ez, ex, kw) ==
    LET d == DataDims(exz)
        z1 == IF "_select_channel" \in DOMAIN kw
              THEN Select(ez, kw["_select_channel"], -d - 1) ELSE ez
        z2 == IF "dtype_lik" \in DOMAIN kw THEN Cast(kw["dtype_lik"], z1) ELSE z1
    IN  [xz |-> exz, z |-> Dirac(z2, d), log |-> <<>>]

\* ------------------------------------------------------------------------
\* The Gaussian likelihoods (likelihood.py)
\* ------------------------------------------------------------------------

HeterogeneousGaussianLikelihood(eps) ==
    [type |-> "HeterogeneousGaussianLikelihood", epsilon |-> eps]
LowRankGaussianLikelihood(rank, eps) ==
    [type |-> "LowRankGaussianLikelihood", rank |-> rank, epsilon |-> eps]
DenseGaussianLikelihood(eps) ==
    [type |-> "DenseGaussianLikelihood", epsilon |-> eps]

\* MultiOutputNormal.diagonal, .lowrank and .dense
Diagonal(mean, noise, shape) ==
    [kind |-> "diagonal", mean |-> mean, noise |-> noise, shape |-> shape]
LowRank(mean, noise, var_factor, shape) ==
    [kind |-> "lowrank", mean |-> mean, noise |-> noise,
     var_factor |-> var_factor, shape |-> shape]
Dense(mean, noise, var, shape) ==
    [kind |-> "dense", mean |-> mean, noise |-> noise, var |-> var, shape |-> shape]

\* A call of code() that raises in place of returning.
CodeError(error) ==
    [xz |-> NoTensor, z |-> [kind |-> "error", error |-> error], log |-> <<>>]

\* util.split_channels(z, sizes, d) fails unless the sizes use up the
\* channel axis with no remainder (spec, sections 3 and 4.2).
SplitChannelsFits(t, sizes, d) == SeqSum(sizes) = ShapeAt(t, -d - 1)

\* util.split_channels(z, sizes, d): the channel axis, the one before the d
\* data axes, cut into consecutive parts of the given sizes (spec, section
\* 3, channel layout).
SplitChannels(t, sizes, d) ==
    LET axis == ResolveAxis(t, -d - 1)
        Offset(k) == SeqSum(SubSeq(sizes, 1, k - 1))
    IN  [k \in 1..Len(sizes) |-> SliceAxis(t, axis, Offset(k), Offset(k) + sizes[k])]

\* likelihood.py:18-39  _vectorise(z, num, offset)
Vectorise(t, num, offset) ==
    LET i1 == ResolveAxis(t, -num - offset)
        i2 == ResolveAxis(t, -(offset + 1)) + 1
        shape_before == SubSeq(t.shape, 1, i1)
        shape_compressed == SubSeq(t.shape, i1 + 1, i2)
        shape_after == SubSeq(t.shape, i2 + 1, Len(t.shape))
    IN  [z |-> Reshape(t, shape_before \o <<-1>> \o shape_after),
         shape |-> shape_compressed]

\* likelihood.py:42-56  _split_dimension(z, axis, dims)
SplitDimension(t, axis, dims) ==
    LET a == ResolveAxis(t, axis)
    IN  Reshape(t, SubSeq(t.shape, 1, a) \o dims \o SubSeq(t.shape, a + 2, Len(t.shape)))

\* B.softplus(v) = log(1 + exp(v)) in units of 1e-6 on the raw entries used;
\* exp(-800) is 0 in floating point.
Softplus(v) ==
    CASE v = -800 -> 0
      [] v = -1 -> 313262
      [] v = 0 -> 693147
      [] v = 3 -> 3048587

\* A noise that leaves the smallest allowable variance out.
NoiseWithoutEpsilon(eps, z_noise) == Map(z_noise, Softplus)

\* noise = coder.epsilon + B.softplus(z_noise), in units of 1e-6
Noise(eps, z_noise) ==
    LET Transformed(v) == eps + Softplus(v)
    IN  Map(z_noise, Transformed)

\* A noiseless prediction that keeps the noise.
NoiselessKeepsNoise(noiseless, noise) == noise

\* if noiseless: noise = B.zeros(noise)
Noiseless(noiseless, noise) == IF noiseless THEN Zeros(noise) ELSE noise

\* The keyword parameters noiseless=False, dtype_lik=None and
\* select_channel=None of the likelihoods.
KwNoiseless(kw) == IF "noiseless" \in DOMAIN kw THEN kw["noiseless"] ELSE FALSE
KwCast(kw, t) == IF "dtype_lik" \in DOMAIN kw THEN Cast(kw["dtype_lik"], t) ELSE t
KwSelect(kw, t, axis) ==
    IF "select_channel" \in DOMAIN kw THEN Select(t, kw["select_channel"], axis) ELSE t

\* The sizes with a factor of one column whatever the rank.
MeanNoiseFactorSizesOneColumn(rank, dim_y) == <<dim_y, dim_y, dim_y>>

\* likelihood.py:144, 213-215, 296  the sizes handed to split_channels:
\* mean, noise and, for the low-rank likelihood, the factor.
MeanNoiseFactorSizes(rank, dim_y) == <<dim_y, dim_y, rank * dim_y>>
MeanNoiseSizes(dim_y) == <<dim_y, dim_y>>

\* likelihood.py:129-169
CodeHeterogeneousGaussianLikelihood(c, exz, ez, ex, kw) ==
    LET d == DataDims(exz)
        dim_y == ShapeAt(ez, -d - 1) \div 2
        parts == SplitChannels(ez, MeanNoiseSizes(dim_y), d)
        z_mean == Vectorise(KwSelect(kw, parts[1], -d - 1), d + 1, 0)
        z_noise == Vectorise(KwSelect(kw, parts[2], -d - 1), d + 1, 0)
        mean == KwCast(kw, z_mean.z)
        noise == KwCast(kw, Noise(c.epsilon, z_noise.z))
    IN  IF ~SplitChannelsFits(ez, MeanNoiseSizes(dim_y), d)
        THEN CodeError("split_channels")
        ELSE [xz |-> exz,
              z |-> Diagonal(mean, Noiseless(KwNoiseless(kw), noise), z_mean.shape),
              log |-> <<>>]

\* z_var_factor / B.shape(z_var_factor, -1): every entry as a fraction
DivideByColumns(t) ==
    LET Divided(v) == Frac(v, ShapeAt(t, -1))
    IN  Map(t, Divided)

\* likelihood.py:197-252
CodeLowRankGaussianLikelihood(c, exz, ez, ex, kw) ==
    LET d == DataDims(exz)
        dim_y == ShapeAt(ez, -d - 1) \div (2 + c.rank)
        sizes == MeanNoiseFactorSizes(c.rank, dim_y)
        parts == SplitChannels(ez, sizes, d)
        split == SplitDimension(parts[3], -d - 1, <<c.rank, dim_y>>)
        z_mean == Vectorise(KwSelect(kw, parts[1], -d - 1), d + 1, 0)
        z_noise == Vectorise(KwSelect(kw, parts[2], -d - 1), d + 1, 0)
        z_var_factor == Transpose(Vectorise(KwSelect(kw, split, -d - 1), d + 1, 0).z)
        mean == KwCast(kw, z_mean.z)
        noise == KwCast(kw, Noise(c.epsilon, z_noise.z))
        var_factor == KwCast(kw, DivideByColumns(z_var_factor))
    IN  IF ~SplitChannelsFits(ez, sizes, d)
        THEN CodeError("split_channels")
        ELSE [xz |-> exz,
              z |-> LowRank(mean, Noiseless(KwNoiseless(kw), noise), var_factor,
                            z_mean.shape),
              log |-> <<>>]

\* likelihood.py:279-324; xz and z are Parallel
CodeDenseGaussianLikelihood(c, exz, ez, ex, kw) ==
    LET z1 == ez[1]
        z2 == ez[2]
        d == DataDims(exz[1])
        dim_y == ShapeAt(z1, -d - 1) \div 2
        parts == SplitChannels(z1, MeanNoiseSizes(dim_y), d)
        z_mean == Vectorise(parts[1], d + 1, 0)
        z_noise == Vectorise(parts[2], d + 1, 0)
        z_var == Vectorise(Vectorise(z2, d + 1, d + 1).z, d + 1, 0)
        mean == KwCast(kw, z_mean.z)
        noise == KwCast(kw, Noise(c.epsilon, z_noise.z))
        var == KwCast(kw, z_var.z)
    IN  IF ~SplitChannelsFits(z1, MeanNoiseSizes(dim_y), d)
        THEN CodeError("split_channels")
        ELSE [xz |-> exz[1],
              z |-> Dense(mean, Noiseless(KwNoiseless(kw), noise), var, z_mean.shape),
              log |-> <<>>]

\* code(coder, xz, z, x, **kw): the dispatch on the coder's type.  The
\* result carries the calls made, this one first.
Code(c, exz, ez, ex, kw) ==
    LET r == CASE c.type = "InputsCoder" -> CodeInputsCoder(c, exz, ez, ex, kw)
               [] c.type = "FunctionalCoder" -> CodeFunctionalCoder(c, exz, ez, ex, kw)
               [] c.type = "DeepSet" -> CodeDeepSet(c, exz, ez, ex, kw)
               [] c.type = "MapDiagonal" -> CodeMapDiagonal(c, exz, ez, ex, kw)
               [] c.type = "DeterministicLikelihood" ->
                      CodeDeterministicLikelihood(c, exz, ez, ex, kw)
               [] c.type = "HeterogeneousGaussianLikelihood" ->
                      CodeHeterogeneousGaussianLikelihood(c, exz, ez, ex, kw)
               [] c.type = "LowRankGaussianLikelihood" ->
                      CodeLowRankGaussianLikelihood(c, exz, ez, ex, kw)
               [] c.type = "DenseGaussianLikelihood" ->
                      CodeDenseGaussianLikelihood(c, exz, ez, ex, kw)
    IN  [r EXCEPT !.log = <<CodeCallOf(c, exz, ez, ex, kw)>> \o r.log]

\* The caller's call code(coder, xz, z, x, **kw_args).
CodeCall ==
    /\ cpc = "ready"
    /\ out' = Code(coder, xz, z, x, kw_args)
    /\ cpc' = "called"
    /\ UNCHANGED <<coder, xz, z, x, kw_args, out_noiseless, perm, out_permuted>>
    /\ UNCHANGED <<retryVars, predictVars, threadVars>>

\* The caller's call repeated with noiseless=True.
CodeCallNoiseless ==
    /\ cpc = "called"
    /\ out_noiseless' = Code(coder, xz, z, x, KwWith(kw_args, "noiseless", TRUE))
    /\ cpc' = "compared"
    /\ UNCHANGED <<coder, xz, z, x, kw_args, out, perm, out_permuted>>
    /\ UNCHANGED <<retryVars, predictVars, threadVars>>

\* The tensor with its entries along the axis (from 0) in the order p, a
\* permutation of 1..n: entry i is what entry p[i] was.
PermuteAxis(t, axis, p) ==
    LET From(idx) == [idx EXCEPT ![axis + 1] = p[idx[axis + 1] + 1] - 1]
    IN  Gather(t, t.shape, From)

\* The caller's call repeated with the observations of the context, which
\* lie along the data axis of xz and z, in another order.
CodeCallPermuted ==
    /\ cpc = "called"
    /\ \E p \in Permutations(1..xz.shape[3]) :
         /\ perm' = p
         /\ out_permuted' = Code(coder, PermuteAxis(xz, 2, p), PermuteAxis(z, 2, p),
                                 x, kw_args)
    /\ cpc' = "permuted"
    /\ UNCHANGED <<coder, xz, z, x, kw_args, out, out_noiseless>>
    /\ UNCHANGED <<retryVars, predictVars, threadVars>>

\* ------------------------------------------------------------------------
\* SpecCoder: code() called on a coder wrapped in combinators
\* ------------------------------------------------------------------------

\* Raw entries of the tensors: a large negative number, small ones and a
\* positive one.
RawValues == <<-800, -1, 0, 3>>

\* The tensor of a shape whose entries run through RawValues from a seed.
RawTensor(shape, seed, dtype) ==
    Tensor(shape,
           [j \in 1..Prod(shape) |-> RawValues[((seed + j) % Len(RawValues)) + 1]],
           dtype)

LeafCoders ==
    {InputsCoder, DeterministicLikelihood,
     DeepSet("affine", "square"), DeepSet("mix", "affine")}

RECURSIVE WrappedCoders(_)
WrappedCoders(k) ==
    IF k = 0 THEN LeafCoders
    ELSE LET inner == WrappedCoders(k - 1)
         IN  inner \cup {FunctionalCoder(3, c) : c \in inner}
                   \cup {MapDiagonal(c, m) : c \in inner, m \in BOOLEAN}

\* The keyword arguments given to code(): any of dtype_lik, noiseless,
\* _select_channel and an option no coder knows.
KwOption(name, values) == {NoKwArgs} \cup {name :> v : v \in values}

CoderKwArgs ==
    {a @@ b @@ c @@ d :
        a \in KwOption("dtype_lik", {"float64"}),
        b \in KwOption("noiseless", {TRUE}),
        c \in KwOption("_select_channel", {0}),
        d \in KwOption("unused_arg", {"None"})}

InitCoder ==
    /\ epsilon = 1
    /\ RetryIdle
    /\ PredictIdle
    /\ ThreadsIdle
    /\ cpc = "ready"
    /\ coder \in WrappedCoders(MaxWrap)
    /\ \E dim_x \in {1, 2}, dim_y \in {1, 2}, n \in 0..MaxPoints :
         /\ xz = RawTensor(<<1, dim_x, n>>, 0, "float32")
         /\ z = RawTensor(<<1, dim_y, n>>, 1, "float32")
         /\ x = RawTensor(<<1, dim_x, 2>>, 2, "float32")
    /\ kw_args \in CoderKwArgs
    /\ out = NoOutput
    /\ out_noiseless = NoOutput
    /\ perm = <<>>
    /\ out_permuted = NoOutput

NextCoder == CodeCall \/ CodeCallPermuted

SpecCoder == InitCoder /\ [][NextCoder]_vars

\* ------------------------------------------------------------------------
\* SpecLik: code() called on a Gaussian likelihood
\* ------------------------------------------------------------------------

\* The smallest allowable variances, in units of 1e-6 (the default is 1).
LikEpsilons == {1, 100}

Likelihoods ==
    {DeterministicLikelihood}
        \cup {HeterogeneousGaussianLikelihood(eps) : eps \in LikEpsilons}
        \cup {LowRankGaussianLikelihood(rank, eps) : rank \in 1..MaxRank, eps \in LikEpsilons}
        \cup {DenseGaussianLikelihood(eps) : eps \in LikEpsilons}

\* The quantities a likelihood packs into the channels of the encoding it
\* decodes: mean, noise and the columns of the low-rank factor.
Quantities(c) ==
    CASE c.type = "DeterministicLikelihood" -> 1
      [] c.type = "LowRankGaussianLikelihood" -> 2 + c.rank
      [] OTHER -> 2

\* The channels of the encoding a likelihood of dim_y outputs decodes.
LikChannels(c, dim_y) == Quantities(c) * dim_y

\* The option that selects an output channel.
SelectOption(c) ==
    IF c.type = "DeterministicLikelihood" THEN "_select_channel" ELSE "select_channel"

\* The keyword arguments given to a likelihood; the selected channel
\* reaches from one below the output channels to one past them.
LikKwArgs(c) ==
    {a @@ b @@ s @@ d :
        a \in KwOption("dtype_lik", {"float64"}),
        b \in KwOption("noiseless", BOOLEAN),
        s \in KwOption(SelectOption(c), -1..MaxDimY),
        d \in KwOption("unused_arg", {"None"})}

InitLik ==
    /\ epsilon = 1
    /\ RetryIdle
    /\ PredictIdle
    /\ ThreadsIdle
    /\ cpc = "ready"
    /\ coder \in Likelihoods
    /\ \E dim_y \in 1..MaxDimY, n \in 1..MaxPoints, seed \in 0..3, more \in {0, 1} :
         LET exz == RawTensor(<<1, 1, n>>, seed, "float32")
             z1 == RawTensor(<<1, LikChannels(coder, dim_y) + more, n>>, seed + 1,
                             "float32")
             z2 == RawTensor(<<1, dim_y, n, dim_y, n>>, seed + 2, "float32")
         IN  /\ xz = IF coder.type = "DenseGaussianLikelihood" THEN <<exz, <<exz, exz>>>> ELSE exz
             /\ z = IF coder.type = "DenseGaussianLikelihood" THEN <<z1, z2>> ELSE z1
             /\ x = RawTensor(<<1, 1, 2>>, seed + 3, "float32")
    /\ kw_args \in LikKwArgs(coder)
    /\ out = NoOutput
    /\ out_noiseless = NoOutput
    /\ perm = <<>>
    /\ out_permuted = NoOutput

NextLik == CodeCall \/ CodeCallNoiseless

SpecLik == InitLik /\ [][NextLik]_vars

\* ------------------------------------------------------------------------
\* SpecThreads: two threads calling _retry at the same time
\* ------------------------------------------------------------------------
\* B.epsilon is an attribute of the module lab, shared by all threads of
\* the process.  A thread may be switched out between any two statements
\* of _retry, and inside `B.epsilon *= 10` between the read of B.epsilon
\* and the write of the product.

\* The B.epsilon values the threads start from (units of 1e-8).
ThreadEpsilons == {1000, 10000}

\* The thread is inside _retry.
InRetry(t) == t_pc[t] \notin {"idle", "returned", "raised"}

\* A reset that leaves B.epsilon as it is.
ResetKeeps(before, eps) == eps

\* predict.py:22, 24  B.epsilon = epsilon_before
Reset(before, eps) == before

\* What a step of a thread leaves alone.
ThreadFrame ==
    /\ UNCHANGED <<eps0, rpc, rf, rargs, epsilon_before, res, raised, calls, ferr,
                   epsAtCall>>
    /\ UNCHANGED <<predictVars, codeVars>>

\* predict.py:12  epsilon_before = B.epsilon
ThreadEnter(t) ==
    /\ t_pc[t] = "idle"
    /\ t_epsilon_before' = [t_epsilon_before EXCEPT ![t] = epsilon]
    /\ overlapped' = (overlapped \/ \E u \in Threads \ {t} : InRetry(u))
    /\ t_pc' = [t_pc EXCEPT ![t] = "try"]
    /\ UNCHANGED <<epsilon, t_loaded, t_calls>>
    /\ ThreadFrame

\* predict.py:15-16  f(*args) returns
ThreadTryOk(t) ==
    /\ t_pc[t] = "try"
    /\ t_calls' = [t_calls EXCEPT ![t] = Append(@, epsilon)]
    /\ t_pc' = [t_pc EXCEPT ![t] = "reset"]
    /\ UNCHANGED <<epsilon, t_epsilon_before, t_loaded, overlapped>>
    /\ ThreadFrame

\* predict.py:15, 17  f(*args) raises
ThreadTryFail(t) ==
    /\ t_pc[t] = "try"
    /\ Len(t_calls[t]) < MaxAttempts
    /\ t_calls' = [t_calls EXCEPT ![t] = Append(@, epsilon)]
    /\ t_pc' = [t_pc EXCEPT ![t] = "load"]
    /\ UNCHANGED <<epsilon, t_epsilon_before, t_loaded, overlapped>>
    /\ ThreadFrame

\* predict.py:19  B.epsilon *= 10: B.epsilon is read
ThreadLoad(t) ==
    /\ t_pc[t] = "load"
    /\ t_loaded' = [t_loaded EXCEPT ![t] = epsilon]
    /\ t_pc' = [t_pc EXCEPT ![t] = "store"]
    /\ UNCHANGED <<epsilon, t_epsilon_before, t_calls, overlapped>>
    /\ ThreadFrame

\* predict.py:19  B.epsilon *= 10: the product is written
ThreadStore(t) ==
    /\ t_pc[t] = "store"
    /\ epsilon' = t_loaded[t] * Factor
    /\ t_pc' = [t_pc EXCEPT ![t] = "test"]
    /\ UNCHANGED <<t_epsilon_before, t_loaded, t_calls, overlapped>>
    /\ ThreadFrame

\* predict.py:20  if B.epsilon > 1e-3
ThreadTest(t) ==
    /\ t_pc[t] = "test"
    /\ t_pc' = [t_pc EXCEPT ![t] = IF epsilon > Ceiling THEN "reset_raise" ELSE "try"]
    /\ UNCHANGED <<epsilon, t_epsilon_before, t_loaded, t_calls, overlapped>>
    /\ ThreadFrame

\* predict.py:22-23  the reset before the raise
ThreadResetRaise(t) ==
    /\ t_pc[t] = "reset_raise"
    /\ epsilon' = Reset(t_epsilon_before[t], epsilon)
    /\ t_pc' = [t_pc EXCEPT ![t] = "raised"]
    /\ UNCHANGED <<t_epsilon_before, t_loaded, t_calls, overlapped>>
    /\ ThreadFrame

\* predict.py:24-25  the reset after success
ThreadReset(t) ==
    /\ t_pc[t] = "reset"
    /\ epsilon' = Reset(t_epsilon_before[t], epsilon)
    /\ t_pc' = [t_pc EXCEPT ![t] = "returned"]
    /\ UNCHANGED <<t_epsilon_before, t_loaded, t_calls, overlapped>>
    /\ ThreadFrame

InitThreads ==
    /\ epsilon \in ThreadEpsilons
    /\ RetryIdle
    /\ PredictIdle
    /\ CodeIdle
    /\ ThreadsIdle

NextThreads ==
    \/ \E t \in Threads : ThreadEnter(t)
    \/ \E t \in Threads : ThreadTryOk(t)
    \/ \E t \in Threads : ThreadTryFail(t)
    \/ \E t \in Threads : ThreadLoad(t)
    \/ \E t \in Threads : ThreadStore(t)
    \/ \E t \in Threads : ThreadTest(t)
    \/ \E t \in Threads : ThreadResetRaise(t)
    \/ \E t \in Threads : ThreadReset(t)

SpecThreads == InitThreads /\ [][NextThreads]_vars

\* ------------------------------------------------------------------------
\* SpecFailing: _retry on a function that raises at every call
\* ------------------------------------------------------------------------

\* The B.epsilon values the invocations start from (units of 1e-8): in the
\* range of the sampler, at the ceiling, zero and negative.
FailingEpsilons == {1, 1000, 100000, 0, -1}

\* predict.py:13-15, 17-23  one pass of the loop in which f(*args) raises,
\* with the history kept to the last MaxAttempts calls and the attempts
\* counted modulo MaxAttempts + 1.
RetryTryFailAgain ==
    /\ rpc = "try"
    /\ \E kind \in Outcomes \ {"ok"} :
         LET e == [kind |-> kind,
                   attempt |-> IF ferr = NoError THEN 0
                               ELSE (ferr.attempt + 1) % (MaxAttempts + 1)]
             step == ExceptClause(epsilon, epsilon_before, e)
             call == [f |-> rf, args |-> rargs, epsilon |-> epsilon]
         IN  /\ calls' = IF Len(calls) < MaxAttempts THEN Append(calls, call)
                         ELSE Append(Tail(calls), call)
             /\ ferr' = e
             /\ epsilon' = step.epsilon
             /\ rpc' = step.rpc
             /\ raised' = step.raised
    /\ UNCHANGED <<eps0, rf, rargs, epsilon_before, res, epsAtCall>>
    /\ UNCHANGED <<predictVars, codeVars, threadVars>>

InitFailing ==
    /\ epsilon \in FailingEpsilons
    /\ RetryIdle
    /\ PredictIdle
    /\ CodeIdle
    /\ ThreadsIdle

NextFailing == CallerCalls \/ RetryEnter \/ RetryTryFailAgain

\* The interpreter goes on running a call of _retry that has begun; the
\* caller need not call again.
SpecFailing ==
    /\ InitFailing
    /\ [][NextFailing]_vars
    /\ WF_vars(RetryEnter)
    /\ WF_vars(RetryTryFailAgain)

\* ------------------------------------------------------------------------
\* The retrying sampler: C1, C2, C3 (checked under SpecRetry)
\* ------------------------------------------------------------------------

RECURSIVE Pow10(_)
Pow10(k) == IF k = 0 THEN 1 ELSE 10 * Pow10(k - 1)

RetryEnded == rpc \in {"returned", "raised"}

\* C1: whenever an invocation of _retry has ended, by returning or by
\* raising, B.epsilon is what it was when the invocation started; so it is
\* B.epsilon's initial value, and every invocation starts from that value.
C1_EpsilonRestored ==
    /\ RetryEnded => epsilon = epsAtCall
    /\ RetryEnded => epsilon = eps0
    /\ rpc = "call" => epsilon = eps0

\* An invocation has ended in a hard failure after running f at an
\* escalated B.epsilon.
C1_Witness ==
    /\ rpc = "raised"
    /\ Len(calls) >= 3
    /\ calls[Len(calls)].epsilon > eps0

\* C2: from an initial regularisation e0 with 0 < e0 <= 1e-3, attempt k
\* (k = 0, 1, ...) calls the same f with the same arguments under
\* B.epsilon = e0 * 10^k; f is never called under B.epsilon > 1e-3; the
\* loop goes on only below the ceiling, and _retry gives up exactly when
\* the last call failed and e0 * 10^(number of calls) exceeds 1e-3.
C2_Escalation ==
    (0 < epsAtCall /\ epsAtCall <= Ceiling /\ rpc \in {"try", "returned", "raised"}) =>
        /\ \A i \in 1..Len(calls) :
              /\ calls[i].f = rf
              /\ calls[i].args = rargs
              /\ calls[i].epsilon = epsAtCall * Pow10(i - 1)
              /\ calls[i].epsilon <= Ceiling
        /\ rpc = "try" => /\ epsilon = epsAtCall * Pow10(Len(calls))
                          /\ epsilon <= Ceiling
        /\ rpc = "raised" => /\ ferr.attempt = Len(calls) - 1
                             /\ epsAtCall * Pow10(Len(calls)) > Ceiling
                             /\ epsAtCall * Pow10(Len(calls) - 1) <= Ceiling
        /\ rpc = "returned" => (ferr = NoError \/ ferr.attempt < Len(calls) - 1)

\* f has failed five times from e0 = 1e-8 and is about to be called a
\* sixth time, under 1e-3.
C2_Witness ==
    /\ rpc = "try"
    /\ epsAtCall = 1
    /\ Len(calls) = 5
    /\ epsilon = Ceiling

\* C3: when _retry ends in a hard failure, the exception that reaches the
\* caller is the one f raised in the last call, unwrapped, and no result is
\* returned; an invocation returns only when its last call of f returned.
C3_OriginalError ==
    /\ rpc = "raised" => /\ raised = ferr
                         /\ raised.kind \in Outcomes \ {"ok"}
                         /\ raised.attempt = Len(calls) - 1
                         /\ res = NoResult
    /\ rpc = "returned" => /\ raised = NoError
                           /\ (ferr = NoError \/ ferr.attempt < Len(calls) - 1)

\* A hard failure after two failed calls, the second a numerical one.
C3_Witness ==
    /\ rpc = "raised"
    /\ Len(calls) = 2
    /\ ferr.kind = "numerical"

\* ------------------------------------------------------------------------
\* predict: C4, C5, C6, C7 (checked under Spec)
\* ------------------------------------------------------------------------

\* The samples asked of the model in evaluations 1..i.
RECURSIVE Requested(_)
Requested(i) == IF i = 0 THEN 0 ELSE evals[i].num_samples + Requested(i - 1)

\* The sums, over the predictions of evaluations 1..i, of the per-sample
\* means and of the per-sample second moments var + mean^2.
RECURSIVE SumMeans(_)
SumMeans(i) ==
    IF i = 0 THEN 0 ELSE SeqSum(evals[i].pred.mean) + SumMeans(i - 1)

SecondMoments(p) == [k \in 1..p.shape |-> p.var[k] + p.mean[k] * p.mean[k]]

RECURSIVE SumSecondMoments(_)
SumSecondMoments(i) ==
    IF i = 0 THEN 0
    ELSE SeqSum(SecondMoments(evals[i].pred)) + SumSecondMoments(i - 1)

Batched == fastAt = 0

\* C4: predict returns exactly num_samples noiseless and num_samples noisy
\* samples along the sample axis, on the batched path and on the fast path.
C4_SampleCount ==
    ppc = "returned" => /\ ret.ft = <<num_samples>>
                        /\ ret.yt = <<num_samples>>

\* predict has returned from batches of unequal sizes.
C4_Witness ==
    /\ ppc = "returned"
    /\ Batched
    /\ num_samples = 4
    /\ batch_size = 3
    /\ Len(ft) = 2

\* C5: on the batched path the model is evaluated once per loop iteration,
\* asked for min(remaining, batch_size) samples: each request lies in
\* 1..batch_size, only the last may be smaller than batch_size, and when
\* predict returns the requests add up to num_samples and there were
\* ceil(num_samples / batch_size) iterations.
C5_BatchSizes ==
    (Batched /\ ppc # "idle") =>
        /\ Len(evals) = iters
        /\ \A i \in 1..Len(evals) :
              /\ evals[i].num_samples = Min(num_samples - Requested(i - 1), batch_size)
              /\ evals[i].num_samples \in 1..batch_size
              /\ i < Len(evals) => evals[i].num_samples = batch_size
        /\ ppc = "returned" =>
              /\ Requested(Len(evals)) = num_samples
              /\ iters = (num_samples + batch_size - 1) \div batch_size

\* predict has returned after two batches, the last one smaller.
C5_Witness ==
    /\ ppc = "returned"
    /\ Batched
    /\ Len(evals) = 2
    /\ evals[2].num_samples < batch_size

\* C6: on the batched path the returned mean is the sum of the per-sample
\* means of all batches over num_samples, and the returned variance is the
\* sum of the per-sample var + mean^2 over num_samples, minus the square of
\* the returned mean.
C6_Moments ==
    (ppc = "returned" /\ Batched) =>
        LET n == num_samples
            s1 == SumMeans(Len(evals))
            s2 == SumSecondMoments(Len(evals))
        IN  /\ FracEq(ret.mean, Frac(s1, n))
            /\ FracEq(ret.var, Frac(s2 * n - s1 * s1, n * n))

\* predict has returned from a batch of two samples of mean -1 and a batch
\* of one sample of mean 2.
C6_Witness ==
    /\ ppc = "returned"
    /\ Batched
    /\ Len(evals) = 2
    /\ evals[1].pred.mean = <<-1, -1>>
    /\ evals[2].pred.mean = <<2>>
    /\ evals[2].pred.var = <<1>>

\* C7: a batch that asked for more than one sample and got a prediction
\* with a sample axis of size 1 takes the fast path (and no other batch
\* does); from then on the model is not evaluated again; predict calls
\* _retry for num_samples noiseless samples, then for num_samples noisy
\* ones, and returns the prediction's own mean and variance.
C7_FastPath ==
    /\ \A i \in 1..Len(evals) :
          (evals[i].num_samples > 1 /\ evals[i].pred.shape = 1) <=> fastAt = i
    /\ ~Batched =>
          /\ Len(evals) = fastAt
          /\ iters = fastAt
          /\ Len(draws) <= 2 * fastAt
          /\ Len(draws) >= 2 * fastAt - 1 =>
                /\ draws[2 * fastAt - 1].method = "noiseless.sample"
                /\ draws[2 * fastAt - 1].args[2] = num_samples
          /\ Len(draws) = 2 * fastAt =>
                /\ draws[2 * fastAt].method = "sample"
                /\ draws[2 * fastAt].args[2] = num_samples
    /\ (~Batched /\ ppc = "returned") =>
          /\ Len(draws) = 2 * fastAt
          /\ ret.mean = Frac(evals[fastAt].pred.mean[1], 1)
          /\ ret.var = Frac(evals[fastAt].pred.var[1], 1)

\* predict has returned by the fast path.
C7_Witness ==
    /\ ppc = "returned"
    /\ ~Batched
    /\ num_samples = 4
    /\ ret.mean = Frac(2, 1)


\* ------------------------------------------------------------------------
\* Keyword options through the combinators: C8 (checked under SpecCoder)
\* ------------------------------------------------------------------------

\* The code() calls of a log, without the calls of discretisations.  A
\* combinator has one inner coder, so each call is made by the one before.
CodeCalls(log) == SelectSeq(log, LAMBDA c : c.callee # "disc")

Combinators == {"FunctionalCoder", "MapDiagonal"}

\* Call i handed its options on to the call it made.
PassedOn(log, i) == CodeCalls(log)[i + 1].kw = CodeCalls(log)[i].kw

\* C8: a FunctionalCoder and a MapDiagonal hand every keyword option they
\* receive, unchanged, to the coder they wrap.
C8_OptionsPassedOn ==
    cpc = "called" =>
        \A i \in 1..(Len(CodeCalls(out.log)) - 1) :
            CodeCalls(out.log)[i].callee \in Combinators => PassedOn(out.log, i)

\* What holds of the code: a FunctionalCoder hands its options on to the
\* discretisation and to the coder it wraps; a MapDiagonal hands on none.
C8_AsCoded ==
    cpc = "called" =>
        \A i \in 1..(Len(CodeCalls(out.log)) - 1) :
            /\ CodeCalls(out.log)[i].callee = "FunctionalCoder" => PassedOn(out.log, i)
            /\ CodeCalls(out.log)[i].callee = "MapDiagonal" =>
                   CodeCalls(out.log)[i + 1].kw = NoKwArgs

\* A MapDiagonal was called with options and has called the coder it wraps.
C8_Witness ==
    /\ cpc = "called"
    /\ \E i \in 1..(Len(CodeCalls(out.log)) - 1) :
         /\ CodeCalls(out.log)[i].callee = "MapDiagonal"
         /\ CodeCalls(out.log)[i].kw # NoKwArgs


\* ------------------------------------------------------------------------
\* The noise of the Gaussian likelihoods: C9, C10 (checked under SpecLik)
\* ------------------------------------------------------------------------

\* code() returned a Gaussian distribution.
IsGaussian(dist) == dist.kind \in {"diagonal", "lowrank", "dense"}

\* Every entry of the noise of a distribution is at least the bound.
NoiseAtLeast(dist, bound) ==
    \A j \in 1..Len(dist.noise.data) : dist.noise.data[j] >= bound

\* C9 as stated: whatever the keyword arguments, every entry of the noise of
\* the distribution a Gaussian likelihood returns is at least its epsilon.
C9_NoiseAtLeastEpsilonAlways ==
    (cpc # "ready" /\ IsGaussian(out.z)) => NoiseAtLeast(out.z, coder.epsilon)

\* C9: when a noiseless prediction is not asked for, every entry of the
\* noise of the distribution a Gaussian likelihood (heterogeneous, low-rank
\* or dense) returns is at least its epsilon, for every raw noise input.
C9_NoiseAtLeastEpsilon ==
    (cpc # "ready" /\ IsGaussian(out.z) /\ ~KwNoiseless(kw_args)) =>
        NoiseAtLeast(out.z, coder.epsilon)

\* A likelihood was called without noiseless on a large negative raw noise,
\* and the noise there is exactly epsilon.
C9_Witness ==
    /\ cpc = "called"
    /\ IsGaussian(out.z)
    /\ ~KwNoiseless(kw_args)
    /\ \E j \in 1..Len(out.z.noise.data) : out.z.noise.data[j] = coder.epsilon

\* The part of a distribution next to mean and noise: the low-rank factor
\* or the dense covariance.
Covariance(dist) ==
    CASE dist.kind = "lowrank" -> dist.var_factor
      [] dist.kind = "dense" -> dist.var
      [] OTHER -> NoTensor

\* C10: the call repeated with noiseless=True returns a distribution whose
\* noise is zero everywhere and has the shape of the noise without
\* noiseless, and whose mean, low-rank factor or dense covariance, and
\* shape descriptor are those of the call without noiseless.
C10_Noiseless ==
    (cpc = "compared" /\ IsGaussian(out.z) /\ ~KwNoiseless(kw_args)) =>
        /\ IsGaussian(out_noiseless.z)
        /\ out_noiseless.z.noise.shape = out.z.noise.shape
        /\ Len(out_noiseless.z.noise.data) = Len(out.z.noise.data)
        /\ \A j \in 1..Len(out_noiseless.z.noise.data) : out_noiseless.z.noise.data[j] = 0
        /\ out_noiseless.z.kind = out.z.kind
        /\ out_noiseless.z.mean = out.z.mean
        /\ Covariance(out_noiseless.z) = Covariance(out.z)
        /\ out_noiseless.z.shape = out.z.shape

\* A low-rank likelihood was called without and with noiseless, and the
\* noise without noiseless is positive.
C10_Witness ==
    /\ cpc = "compared"
    /\ "noiseless" \in DOMAIN kw_args
    /\ ~kw_args["noiseless"]
    /\ coder.type = "LowRankGaussianLikelihood"
    /\ IsGaussian(out.z)
    /\ Len(out.z.noise.data) > 0
    /\ \A j \in 1..Len(out.z.noise.data) : out.z.noise.data[j] > 0


\* ------------------------------------------------------------------------
\* MapDiagonal: C11 (checked under SpecCoder)
\* ------------------------------------------------------------------------

\* Tensor b is tensor a twice along the channel axis (axis 1 of 3).
Duplicated(a, b) ==
    /\ Len(b.shape) = Len(a.shape)
    /\ \A k \in 1..Len(a.shape) : b.shape[k] = IF k = 2 THEN 2 * a.shape[2] ELSE a.shape[k]
    /\ Len(b.data) = 2 * Len(a.data)
    /\ \A j \in 1..Len(b.data) :
         LET idx == Unravel(j - 1, b.shape)
             src == [idx EXCEPT ![2] = idx[2] % a.shape[2]]
         IN  b.data[j] = a.data[Ravel(src, a.shape) + 1]

\* Call i of the log is a call of a MapDiagonal with this map_encoding.
IsMapDiagonalCall(log, i, map_encoding) ==
    /\ CodeCalls(log)[i].callee = "MapDiagonal"
    /\ CodeCalls(log)[i].coder.map_encoding = map_encoding

\* C11: a MapDiagonal with map_encoding=True hands the coder it wraps the
\* encoding twice along the channel axis (c channels become 2c), one with
\* map_encoding=False hands the encoding over unchanged, and both hand over
\* the pair (x, x) as target locations and z as it is.
C11_MapDiagonal ==
    cpc = "called" =>
        \A i \in 1..(Len(CodeCalls(out.log)) - 1) :
            LET outer == CodeCalls(out.log)[i]
                inner == CodeCalls(out.log)[i + 1]
            IN  outer.callee = "MapDiagonal" =>
                    /\ inner.coder = outer.coder.coder
                    /\ inner.x = <<outer.x, outer.x>>
                    /\ inner.z = outer.z
                    /\ outer.coder.map_encoding => Duplicated(outer.xz, inner.xz)
                    /\ ~outer.coder.map_encoding => inner.xz = outer.xz

\* A MapDiagonal that maps a non-empty encoding of two channels wraps one
\* that does not map.
C11_Witness ==
    /\ cpc = "called"
    /\ Len(CodeCalls(out.log)) = 3
    /\ IsMapDiagonalCall(out.log, 1, TRUE)
    /\ IsMapDiagonalCall(out.log, 2, FALSE)
    /\ CodeCalls(out.log)[1].xz.shape = <<1, 2, 2>>
    /\ CodeCalls(out.log)[2].xz.shape = <<1, 4, 2>>


\* ------------------------------------------------------------------------
\* DeepSet: C12 (checked under SpecCoder)
\* ------------------------------------------------------------------------

\* The last call of a log: the coder the combinators wrap.
Innermost(log) == CodeCalls(log)[Len(CodeCalls(log))]

\* The encoding rho makes of a context without observations: rho of zeros,
\* one per channel of xz and z, along a data axis of size 1.
RhoOfNothing(call) ==
    LET channels == call.xz.shape[2] + call.z.shape[2]
    IN  Pointwise(call.coder.rho,
                  Tensor(<<call.xz.shape[1], channels, 1>>,
                         [j \in 1..(call.xz.shape[1] * channels) |-> 0],
                         call.xz.dtype))

\* C12: what a DeepSet returns has a data axis of size 1 and the requested
\* x as locations; it is the same for every order of the observations; and
\* for a context without observations it is rho of the zero contribution.
C12_DeepSet ==
    (cpc # "ready" /\ Innermost(out.log).callee = "DeepSet") =>
        /\ out.z.shape[3] = 1
        /\ out.z.shape[2] = Innermost(out.log).xz.shape[2] + Innermost(out.log).z.shape[2]
        /\ out.xz = Innermost(out.log).x
        /\ xz.shape[3] = 0 => out.z = RhoOfNothing(Innermost(out.log))
        /\ cpc = "permuted" => (out_permuted.z = out.z /\ out_permuted.xz = out.xz)

\* A DeepSet was called on two different observations, and again with the
\* two exchanged.
C12_Witness ==
    /\ cpc = "permuted"
    /\ Innermost(out.log).callee = "DeepSet"
    /\ perm = <<2, 1>>
    /\ PermuteAxis(xz, 2, perm) # xz
    /\ PermuteAxis(z, 2, perm) # z

\* A DeepSet was called on a context without observations.
C12_WitnessEmpty ==
    /\ cpc = "called"
    /\ coder.type = "DeepSet"
    /\ xz.shape[3] = 0
    /\ Len(out.z.data) > 0


\* ------------------------------------------------------------------------
\* Errors that are not numerical: C13 (checked under Spec)
\* ------------------------------------------------------------------------

\* C13: once a sampling call of predict has raised an error that is not
\* numerical, _retry does not call it again, the error leaves _retry at
\* once, and B.epsilon is what it was when _retry was called.
C13_OtherErrorsNotRetried ==
    (ppc # "idle" /\ ferr.kind = "other") =>
        /\ Len(calls) = ferr.attempt + 1
        /\ rpc # "try"
        /\ epsilon = epsAtCall

\* What the code does: a sampling call of predict that raised an error
\* that is not numerical was called again, under a B.epsilon ten times
\* what it was.
C13_Witness ==
    /\ ppc \in {"noiseless", "noisy", "fast_noiseless", "fast_noisy"}
    /\ ferr.kind = "other"
    /\ Len(calls) = ferr.attempt + 2
    /\ calls[Len(calls)].epsilon = Factor * calls[Len(calls) - 1].epsilon


\* ------------------------------------------------------------------------
\* Selecting an output channel: C14 (checked under SpecLik)
\* ------------------------------------------------------------------------

\* The likelihoods that take an option selecting an output channel.
Selecting == {"DeterministicLikelihood", "HeterogeneousGaussianLikelihood",
              "LowRankGaussianLikelihood"}

\* The call selects an output channel that is not one of 0, ..., dim_y - 1.
SelectsOutOfRange ==
    /\ coder.type \in Selecting
    /\ SelectOption(coder) \in DOMAIN kw_args
    /\ kw_args[SelectOption(coder)] \notin 0..((z.shape[2] \div Quantities(coder)) - 1)

\* C14: a call of code() that selects an output channel outside
\* [0, dim_y) raises an error and returns no distribution.
C14_OutOfRangeSelectFails ==
    (cpc # "ready" /\ SelectsOutOfRange) => out.z.kind = "error"

\* What the code does: a heterogeneous likelihood asked for the channel one
\* past the last of an encoding whose channels divide evenly has returned
\* a distribution whose mean and noise have no entry.
C14_Witness ==
    /\ cpc = "called"
    /\ coder.type = "HeterogeneousGaussianLikelihood"
    /\ z.shape[2] % 2 = 0
    /\ SelectsOutOfRange
    /\ kw_args["select_channel"] = z.shape[2] \div 2
    /\ out.z.kind = "diagonal"
    /\ out.z.mean.shape = <<1, 0>>
    /\ out.z.noise.data = <<>>
    /\ out.z.shape = <<0, z.shape[3]>>


\* ------------------------------------------------------------------------
\* The split of the channels: C15 (checked under SpecLik)
\* ------------------------------------------------------------------------

Gaussians == {"HeterogeneousGaussianLikelihood", "LowRankGaussianLikelihood",
              "DenseGaussianLikelihood"}

\* The encoding whose channels pack mean and noise: z, or its first branch
\* for the dense likelihood.
Packed == IF coder.type = "DenseGaussianLikelihood" THEN z[1] ELSE z

\* Without a selected channel, the distribution is made of the channels of
\* the encoding in the order mean, noise, factor: dim_y channels of n
\* points each for mean and noise, rank * dim_y for the factor, whose
\* entry for output m and column r is entry r * dim_y * n + m of its part
\* divided by the rank.
InOrder(dist, t, dim_y, n) ==
    /\ dist.shape = <<dim_y, n>>
    /\ dist.mean.shape = <<1, dim_y * n>>
    /\ \A j \in 1..(dim_y * n) : dist.mean.data[j] = t.data[j]
    /\ dist.noise.shape = <<1, dim_y * n>>
    /\ ~KwNoiseless(kw_args) =>
           \A j \in 1..(dim_y * n) :
               dist.noise.data[j] = coder.epsilon + Softplus(t.data[dim_y * n + j])
    /\ dist.kind = "lowrank" =>
           /\ dist.var_factor.shape = <<1, dim_y * n, coder.rank>>
           /\ \A m \in 0..(dim_y * n - 1), r \in 0..(coder.rank - 1) :
                  dist.var_factor.data[m * coder.rank + r + 1]
                      = Frac(t.data[(2 + r) * dim_y * n + m + 1], coder.rank)

C15_WitnessRemainder ==
    /\ cpc = "called"
    /\ coder.type = "LowRankGaussianLikelihood"
    /\ coder.rank = 2
    /\ z.shape[2] = 5
    /\ out.z.kind = "error"


\* ------------------------------------------------------------------------
\* Threads sharing B.epsilon: C16 (checked under SpecThreads)
\* ------------------------------------------------------------------------

AllEnded == \A t \in Threads : t_pc[t] \in {"returned", "raised"}

\* Call i of thread t ran at B.epsilon escalated by its own failures alone.
OwnEscalation(t, i) == t_calls[t][i] = eps0 * Pow10(i - 1)

\* C16: invocations of _retry that do not overlap make their calls at
\* their own escalations of B.epsilon and leave B.epsilon as it was before
\* the first; invocations that overlap do not (C16_Witness): a call of one
\* runs at a B.epsilon escalated by the other, and after both have ended
\* B.epsilon is not what it was before either started.
C16_SafeOnlyAlone ==
    ~overlapped =>
        /\ \A t \in Threads : \A i \in 1..Len(t_calls[t]) : OwnEscalation(t, i)
        /\ (\A t \in Threads : ~InRetry(t)) => epsilon = eps0

\* Two overlapping invocations have ended, the first call of one of them
\* ran at a B.epsilon the other had escalated, and B.epsilon is not what
\* it was before either started.
C16_Witness ==
    /\ overlapped
    /\ AllEnded
    /\ epsilon # eps0
    /\ \E t \in Threads :
         /\ Len(t_calls[t]) = 1
         /\ ~OwnEscalation(t, 1)
         /\ \E u \in Threads \ {t} : Len(t_calls[u]) > 1


\* ------------------------------------------------------------------------
\* Termination of _retry: C17 (checked under SpecFailing)
\* ------------------------------------------------------------------------

\* C17: whatever B.epsilon is when _retry is called, if f raises at every
\* call then the error leaves _retry after finitely many calls.
C17_Terminates == (rpc = "call") ~> (rpc = "raised")

\* What holds of the code: the error leaves _retry if B.epsilon was
\* positive when _retry was called.
C17_TerminatesFromPositive == (rpc = "call" /\ epsilon > 0) ~> (rpc = "raised")

\* What the code does: called under B.epsilon = 0, _retry has called f more
\* than MaxAttempts times, B.epsilon is still 0 and the loop goes on.
C17_Witness ==
    /\ rpc = "try"
    /\ epsAtCall = 0
    /\ epsilon = 0
    /\ Len(calls) = MaxAttempts
    /\ ferr.attempt = 0


\* ------------------------------------------------------------------------
\* The fast path and the batches before it: C18 (checked under Spec)
\* ------------------------------------------------------------------------

\* predict is in the fast-path branch (predict.py:82-92) or has left by it.
InFastPath ==
    \/ ppc \in {"fast_noiseless", "fast_noisy"}
    \/ ppc \in {"returned", "raised"} /\ fastAt # 0

\* C18: the fast path is taken in the first iteration of the loop only:
\* when predict is in the fast-path branch or has returned by it, the model
\* has been evaluated once, done_num_samples is 0, the moment lists are
\* empty, no batch has drawn a sample, and ft and yt are empty until the
\* fast path assigns them.
C18_FastPathFirstIteration ==
    InFastPath =>
        /\ fastAt = 1
        /\ iters = 1
        /\ Len(evals) = 1
        /\ done_num_samples = 0
        /\ m1s = <<>>
        /\ m2s = <<>>
        /\ \A i \in 1..Len(draws) : Len(draws[i].args) = 2
        /\ ppc = "fast_noiseless" => ft = <<>>
        /\ ppc \in {"fast_noiseless", "fast_noisy"} => yt = <<>>

\* predict, asked for more samples than a batch holds, has returned by the
\* fast path.
C18_Witness ==
    /\ ppc = "returned"
    /\ fastAt = 1
    /\ batch_size = 2
    /\ num_samples = 3
    /\ done_num_samples = 0
    /\ Len(draws) = 2

====
